---- MODULE Spec2Model ----
(***************************************************************************)
(* Todo API backend (FastAPI): JWT issuance and verification, the bearer   *)
(* Auth Gate, user registration/login and the owner-scoped task store.     *)
(*                                                                         *)
(* Python strings are sequences of one-character strings, so that str(),   *)
(* int() and strip() are computed rather than assumed.  Time is the server *)
(* clock in whole seconds since the epoch, the granularity of the JWT      *)
(* NumericDate claims (jose converts datetimes with timegm()).             *)
(***************************************************************************)
EXTENDS Integers, Sequences, FiniteSets, TLC

VARIABLES
    users,          \* table "users":  id -> row
    next_user_id,   \* AUTOINCREMENT counter of table users
    tasks,          \* table "tasks":  id -> row
    next_task_id,   \* AUTOINCREMENT counter of table tasks
    clock,          \* datetime.utcnow(), whole seconds
    issued,         \* tokens handed out so far: {[user_id, token]}
    resp,           \* the request just handled and its response
    sessions        \* requests running side by side, each with its own
                    \* database session: what it loaded and how it ended

vars ==
    <<users, next_user_id, tasks, next_task_id, clock, issued, resp, sessions>>

----------------------------------------------------------------------------
(* Bounds of the model *)

MaxDays == 1
MaxSeconds == 1
MaxSubject == 11
LargeSubject == 1000000
MaxUsers == 2
MaxTasks == 2
MaxTokens == 2
MaxAttempts == 3
MaxSessions == 2

----------------------------------------------------------------------------
(* Program constants *)

BETTER_AUTH_SECRET == "default-secret-change-this"
ALGORITHM == "HS256"
ACCESS_TOKEN_EXPIRE_HOURS == 24
SecondsPerHour == 3600
HTTP_200_OK == 200
HTTP_201_CREATED == 201
HTTP_204_NO_CONTENT == 204
HTTP_400_BAD_REQUEST == 400
HTTP_401_UNAUTHORIZED == 401
HTTP_403_FORBIDDEN == 403
HTTP_404_NOT_FOUND == 404
HTTP_500_INTERNAL_SERVER_ERROR == 500

----------------------------------------------------------------------------
(* Python values *)

\* Optional[str]: None or a string
None == [some |-> FALSE, s |-> <<>>]
Some(s) == [some |-> TRUE, s |-> s]

\* a JSON claim value: absent, a string or an integer
Absent == [kind |-> "absent", s |-> <<>>, n |-> 0]
StrVal(s) == [kind |-> "str", s |-> s, n |-> 0]
IntVal(n) == [kind |-> "int", s |-> <<>>, n |-> n]

\* the outcome of a call: a returned value or a raised HTTPException
Return(v) ==
    [ok |-> TRUE, value |-> v, status_code |-> 0, detail |-> "",
     www_authenticate |-> ""]
HTTPException(status_code, detail, www_authenticate) ==
    [ok |-> FALSE, value |-> 0, status_code |-> status_code, detail |-> detail,
     www_authenticate |-> www_authenticate]

DigitChars == <<"0", "1", "2", "3", "4", "5", "6", "7", "8", "9">>
Whitespace == {" ", "\t", "\n"}

IsDigit(c) == \E i \in 1..10 : DigitChars[i] = c
DigitValue(c) == (CHOOSE i \in 1..10 : DigitChars[i] = c) - 1

RECURSIVE NatStr(_)
NatStr(n) ==
    IF n < 10 THEN <<DigitChars[n + 1]>>
    ELSE Append(NatStr(n \div 10), DigitChars[(n % 10) + 1])

\* str(user_id) of a Python int
str(n) == IF n < 0 THEN <<"-">> \o NatStr(-n) ELSE NatStr(n)

RECURSIVE lstrip(_)
lstrip(s) ==
    IF s # <<>> /\ Head(s) \in Whitespace THEN lstrip(Tail(s)) ELSE s

RECURSIVE rstrip(_)
rstrip(s) ==
    IF s # <<>> /\ s[Len(s)] \in Whitespace
    THEN rstrip(SubSeq(s, 1, Len(s) - 1)) ELSE s

\* str.strip()
strip(s) == rstrip(lstrip(s))

\* digits with single underscores between them, as int() accepts
RECURSIVE DigitsValue(_, _)
DigitsValue(s, acc) ==
    IF s = <<>> THEN acc
    ELSE IF Head(s) = "_" THEN DigitsValue(Tail(s), acc)
    ELSE DigitsValue(Tail(s), 10 * acc + DigitValue(Head(s)))

IsDigits(s) ==
    /\ s # <<>>
    /\ IsDigit(s[1]) /\ IsDigit(s[Len(s)])
    /\ \A i \in 1..Len(s) : IsDigit(s[i]) \/ s[i] = "_"
    /\ \A i \in 1..(Len(s) - 1) : ~(s[i] = "_" /\ s[i + 1] = "_")

\* int(text): [ok, value]; ok = FALSE is ValueError
int(text) ==
    LET t == strip(text)
        signed == t # <<>> /\ Head(t) \in {"+", "-"}
        body == IF signed THEN Tail(t) ELSE t
    IN  IF IsDigits(body)
        THEN [ok |-> TRUE,
              value |-> IF signed /\ Head(t) = "-"
                        THEN 0 - DigitsValue(body, 0)
                        ELSE DigitsValue(body, 0)]
        ELSE [ok |-> FALSE, value |-> 0]

----------------------------------------------------------------------------
(* Token Service *)

ExpireSeconds == ACCESS_TOKEN_EXPIRE_HOURS * SecondsPerHour

\* jose.jwt.encode: the compact token, kept as its parts.  key stands for
\* the HMAC signature: it verifies exactly under the key that made it.
jwt_encode(claims, key, algorithm) ==
    [malformed |-> FALSE, claims |-> claims, key |-> key, alg |-> algorithm]

NoClaims == [sub |-> Absent, exp |-> Absent, iat |-> Absent]
MalformedToken ==
    [malformed |-> TRUE, claims |-> NoClaims, key |-> "", alg |-> ""]

\* jose.jwt.decode(token, key, algorithms) at server time now:
\* [ok, claims, error]
jwt_decode(token, key, algorithms, now) ==
    LET c == token.claims
        fail(e) == [ok |-> FALSE, claims |-> NoClaims, error |-> e]
        exp == IF c.exp.kind = "int" THEN [ok |-> TRUE, value |-> c.exp.n]
               ELSE int(c.exp.s)
    IN  IF token.malformed THEN fail("Not enough segments")
        ELSE IF token.alg \notin algorithms
        THEN fail("The specified alg value is not allowed")
        ELSE IF token.key # key THEN fail("Signature verification failed.")
        ELSE IF c.exp.kind # "absent" /\ ~exp.ok
        THEN fail("Expiration Time claim (exp) must be an integer.")
        ELSE IF c.exp.kind # "absent" /\ exp.value < now
        THEN fail("Signature has expired.")
        ELSE IF c.sub.kind \notin {"absent", "str"}
        THEN fail("Subject must be a string.")
        ELSE [ok |-> TRUE, claims |-> c, error |-> ""]

\* UserService.create_access_token: utcnow() is read twice, at now_exp for
\* "exp" and then at now_iat for "iat"
create_access_token_int_sub(user_id, now_exp, now_iat) ==
    jwt_encode([sub |-> IntVal(user_id),
                exp |-> IntVal(now_exp + ExpireSeconds),
                iat |-> IntVal(now_iat)],
               BETTER_AUTH_SECRET, ALGORITHM)
create_access_token(user_id, now_exp, now_iat) ==
    jwt_encode([sub |-> StrVal(str(user_id)),
                exp |-> IntVal(now_exp + ExpireSeconds),
                iat |-> IntVal(now_iat)],
               BETTER_AUTH_SECRET, ALGORITHM)

Unauthorized(detail) == HTTPException(HTTP_401_UNAUTHORIZED, detail, "Bearer")

verify_token_at_uncaught(token, now) ==
    LET d == jwt_decode(token, BETTER_AUTH_SECRET, {ALGORITHM}, now)
        user_id == d.claims.sub
        n == int(user_id.s)
    IN  IF ~d.ok THEN Unauthorized("Invalid or expired token")
        ELSE IF user_id.kind = "absent"
        THEN Unauthorized("Invalid token: missing user ID")
        ELSE IF ~n.ok
        THEN HTTPException(HTTP_500_INTERNAL_SERVER_ERROR,
                           "Internal Server Error", "")
        ELSE Return(n.value)
\* services/auth.py verify_token at server time now
verify_token_at(token, now) ==
    LET d == jwt_decode(token, BETTER_AUTH_SECRET, {ALGORITHM}, now)
        user_id == d.claims.sub
        n == int(user_id.s)
    IN  IF ~d.ok THEN Unauthorized("Invalid or expired token")
        \* the HTTPException raised in the try block is caught by
        \* "except Exception" and raised again under another detail
        ELSE IF user_id.kind = "absent"
        THEN Unauthorized("Token verification failed")
        ELSE IF ~n.ok
        THEN Unauthorized("Invalid token: user ID must be an integer")
        ELSE Return(n.value)

verify_token_no_exp(token) == verify_token_at(token, 0)
verify_token_active_user(token) ==
    LET r == verify_token_at(token, clock)
    IN  IF r.ok /\ ~(r.value \in DOMAIN users /\ users[r.value].is_active)
        THEN Unauthorized("User not found or inactive")
        ELSE r
verify_token(token) == verify_token_at(token, clock)

----------------------------------------------------------------------------
(* Auth Gate *)

\* an Authorization header
Header(scheme, token) ==
    [authorization |-> TRUE, scheme |-> scheme, has_credentials |-> TRUE,
     token |-> token]
NoHeader ==
    [authorization |-> FALSE, scheme |-> "", has_credentials |-> FALSE,
     token |-> MalformedToken]
EmptyBearer ==
    [authorization |-> TRUE, scheme |-> "Bearer", has_credentials |-> FALSE,
     token |-> MalformedToken]
Bearer(token) == Header("Bearer", token)

lower(scheme) ==
    IF scheme \in {"Bearer", "bearer", "BEARER"} THEN "bearer"
    ELSE IF scheme = "Basic" THEN "basic"
    ELSE scheme

\* The status fastapi.security.HTTPBearer (auto_error=True) raises when the
\* bearer credential is missing: 403 up to FastAPI 0.121, 401 from 0.122 on.
\* The repository pins no version, so both are outcomes of a build.
NotAuthenticatedStatus == {HTTP_401_UNAUTHORIZED, HTTP_403_FORBIDDEN}

\* security = HTTPBearer(): [ok, token] or the error it raises itself
security(header, not_authenticated) ==
    LET err(detail) ==
            [ok |-> FALSE, token |-> MalformedToken,
             exc |-> HTTPException(not_authenticated, detail,
                         IF not_authenticated = HTTP_401_UNAUTHORIZED
                         THEN "Bearer" ELSE "")]
    IN  IF ~(header.authorization /\ header.scheme # ""
             /\ header.has_credentials)
        THEN err("Not authenticated")
        ELSE IF lower(header.scheme) # "bearer"
        THEN err(IF not_authenticated = HTTP_401_UNAUTHORIZED
                 THEN "Not authenticated"
                 ELSE "Invalid authentication credentials")
        ELSE [ok |-> TRUE, token |-> header.token, exc |-> Return(0)]

\* middleware/auth.py get_current_user_id
get_current_user_id(header, not_authenticated) ==
    LET credentials == security(header, not_authenticated)
    IN  IF ~credentials.ok THEN credentials.exc
        ELSE verify_token(credentials.token)

----------------------------------------------------------------------------
(* Persistence: rows and response models *)

HTTP_422_UNPROCESSABLE_ENTITY == 422
TITLE_MAX_LENGTH == 200
DESCRIPTION_MAX_LENGTH == 1000

\* models/task.py Task row (without its id, the key of the table)
Task(user_id, title, description, is_complete, created_at) ==
    [user_id |-> user_id, title |-> title, description |-> description,
     is_complete |-> is_complete, created_at |-> created_at]

\* models/schemas.py TaskResponse.model_validate(task)
TaskResponse(id, task) ==
    [id |-> id, title |-> task.title, description |-> task.description,
     is_complete |-> task.is_complete, created_at |-> task.created_at,
     user_id |-> task.user_id]

NoTask ==
    [id |-> 0, title |-> <<>>, description |-> None, is_complete |-> FALSE,
     created_at |-> 0, user_id |-> 0]

\* models/user.py User row (without its id)
User(email, password_hash, is_active) ==
    [email |-> email, password_hash |-> password_hash,
     is_active |-> is_active]

\* models/auth_schemas.py UserResponse.model_validate(user)
UserResponse(id, user) ==
    [id |-> id, email |-> user.email, is_active |-> user.is_active]

NoUser == [id |-> 0, email |-> "", is_active |-> FALSE]

\* a JSON request body of the task routes; user_id is a field the schemas
\* do not declare (0: not sent)
TaskBody(title, description, user_id) ==
    [title |-> title, description |-> description, user_id |-> user_id]
NoBody == TaskBody(None, None, 0)

\* the request just handled and the response to it
NoResp ==
    [op |-> "none", header |-> NoHeader, authenticated |-> FALSE,
     caller |-> 0,
     task_id |-> 0, task_data |-> NoBody, status_filter |-> "",
     email |-> "", password |-> "",
     status_code |-> 0, detail |-> "", www_authenticate |-> "",
     task |-> NoTask, tasks |-> <<>>, total_count |-> 0,
     filtered_count |-> 0,
     token_type |-> "", access_token |-> MalformedToken, user |-> NoUser,
     message |-> "", failed_before |-> 0, engine_failed |-> FALSE]

Request(op, header) == [NoResp EXCEPT !.op = op, !.header = header]

Raised(req, exc) ==
    [req EXCEPT !.status_code = exc.status_code, !.detail = exc.detail,
                !.www_authenticate = exc.www_authenticate]

----------------------------------------------------------------------------
(* Request validation (pydantic) *)

\* Field(min_length=1, max_length=200) on the raw value, then the
\* field_validator title_not_whitespace: [ok, title]
TaskCreate_title(v) ==
    IF ~v.some \/ Len(v.s) < 1 \/ Len(v.s) > TITLE_MAX_LENGTH
    THEN [ok |-> FALSE, title |-> None]
    ELSE IF strip(v.s) = <<>> THEN [ok |-> FALSE, title |-> None]
    ELSE [ok |-> TRUE, title |-> Some(strip(v.s))]

TaskUpdate_title_unchecked(v) ==
    IF ~v.some THEN [ok |-> TRUE, title |-> None]
    ELSE [ok |-> TRUE, title |-> Some(v.s)]
\* TaskUpdate.title is Optional: None passes through
TaskUpdate_title(v) ==
    IF ~v.some THEN [ok |-> TRUE, title |-> None]
    ELSE IF Len(v.s) < 1 \/ Len(v.s) > TITLE_MAX_LENGTH
    THEN [ok |-> FALSE, title |-> None]
    ELSE IF strip(v.s) = <<>> THEN [ok |-> FALSE, title |-> None]
    ELSE [ok |-> TRUE, title |-> Some(strip(v.s))]

\* Field(max_length=1000), then clean_description (the same in both
\* schemas): [ok, description]
clean_description(v) ==
    IF v.some /\ Len(v.s) > DESCRIPTION_MAX_LENGTH
    THEN [ok |-> FALSE, description |-> None]
    ELSE IF v.some /\ v.s # <<>>
    THEN [ok |-> TRUE,
          description |-> IF strip(v.s) # <<>> THEN Some(strip(v.s))
                          ELSE None]
    ELSE [ok |-> TRUE, description |-> None]

\* TaskCreate(**body): fields the schema does not declare are ignored
TaskCreate(body) ==
    LET t == TaskCreate_title(body.title)
        d == clean_description(body.description)
    IN  [ok |-> t.ok /\ d.ok, title |-> t.title.s,
         description |-> d.description]

\* TaskUpdate(**body)
TaskUpdate(body) ==
    LET t == TaskUpdate_title(body.title)
        d == clean_description(body.description)
    IN  [ok |-> t.ok /\ d.ok, title |-> t.title,
         description |-> d.description]

ValidationError ==
    HTTPException(HTTP_422_UNPROCESSABLE_ENTITY, "validation error", "")

----------------------------------------------------------------------------
(* Task service: each method on the current tables.  A method gives the   *)
(* outcome, the task it returns and the tasks table it commits.           *)

TaskNotFound ==
    HTTPException(HTTP_404_NOT_FOUND, "Task not found or access denied", "")

\* select(Task).where(Task.id == task_id, Task.user_id == user_id),
\* scalar_one_or_none(): the ids of the matching rows (none or one)
select_task_any_owner(user_id, task_id) ==
    {t \in DOMAIN tasks : t = task_id}
select_task(user_id, task_id) ==
    {t \in DOMAIN tasks : t = task_id /\ tasks[t].user_id = user_id}

Result(exc, task, table) == [exc |-> exc, task |-> task, tasks |-> table]

create_task_owner_from_body(user_id, task_data, body, now) ==
    LET task == Task(IF body.user_id # 0 THEN body.user_id ELSE user_id,
                     task_data.title, task_data.description, FALSE, now)
    IN  Result(Return(0), TaskResponse(next_task_id, task),
               (next_task_id :> task) @@ tasks)
\* TaskService.create_task; body is the raw request, which it never reads
create_task(user_id, task_data, body, now) ==
    LET task == Task(user_id, task_data.title, task_data.description,
                     FALSE, now)
    IN  Result(Return(0), TaskResponse(next_task_id, task),
               (next_task_id :> task) @@ tasks)

get_task_by_id_forbidden(user_id, task_id) ==
    IF task_id \notin DOMAIN tasks THEN Result(TaskNotFound, NoTask, tasks)
    ELSE IF tasks[task_id].user_id # user_id
    THEN Result(HTTPException(HTTP_403_FORBIDDEN, "Forbidden", ""), NoTask,
                tasks)
    ELSE Result(Return(0), TaskResponse(task_id, tasks[task_id]), tasks)
\* TaskService.get_task_by_id
get_task_by_id(user_id, task_id) ==
    IF select_task(user_id, task_id) = {}
    THEN Result(TaskNotFound, NoTask, tasks)
    ELSE Result(Return(0), TaskResponse(task_id, tasks[task_id]), tasks)

update_task_replace_all(user_id, task_id, task_data) ==
    IF select_task(user_id, task_id) = {}
    THEN Result(TaskNotFound, NoTask, tasks)
    ELSE LET old == tasks[task_id]
             task == [old EXCEPT
                        !.title = IF task_data.title.some
                                  THEN task_data.title.s ELSE @,
                        !.description = task_data.description]
         IN  Result(Return(0), TaskResponse(task_id, task),
                    [tasks EXCEPT ![task_id] = task])
\* TaskService.update_task
update_task(user_id, task_id, task_data) ==
    IF select_task(user_id, task_id) = {}
    THEN Result(TaskNotFound, NoTask, tasks)
    ELSE LET old == tasks[task_id]
             task == [old EXCEPT
                        !.title = IF task_data.title.some
                                  THEN task_data.title.s ELSE @,
                        !.description = IF task_data.description.some
                                        THEN task_data.description ELSE @]
         IN  Result(Return(0), TaskResponse(task_id, task),
                    [tasks EXCEPT ![task_id] = task])

\* TaskService.delete_task
delete_task(user_id, task_id) ==
    IF select_task(user_id, task_id) = {}
    THEN Result(TaskNotFound, NoTask, tasks)
    ELSE Result(Return(0), NoTask,
                [t \in DOMAIN tasks \ {task_id} |-> tasks[t]])

toggle_completion_set_true(user_id, task_id) ==
    IF select_task(user_id, task_id) = {}
    THEN Result(TaskNotFound, NoTask, tasks)
    ELSE LET task == [tasks[task_id] EXCEPT !.is_complete = TRUE]
         IN  Result(Return(0), TaskResponse(task_id, task),
                    [tasks EXCEPT ![task_id] = task])
\* TaskService.toggle_completion
toggle_completion(user_id, task_id) ==
    IF select_task(user_id, task_id) = {}
    THEN Result(TaskNotFound, NoTask, tasks)
    ELSE LET task == [tasks[task_id] EXCEPT !.is_complete = ~@]
         IN  Result(Return(0), TaskResponse(task_id, task),
                    [tasks EXCEPT ![task_id] = task])

\* the rows of a query in an order the engine may return them under
\* ORDER BY created_at DESC (rows of equal created_at in any order)
Orderings(ids) ==
    {o \in [1..Cardinality(ids) -> ids] :
        /\ \A i, j \in DOMAIN o : i # j => o[i] # o[j]
        /\ \A i, j \in DOMAIN o :
              i < j => tasks[o[i]].created_at >= tasks[o[j]].created_at}

filtered_tasks_any_owner(user_id, status_filter) ==
    {t \in DOMAIN tasks :
        /\ status_filter = "complete" => tasks[t].is_complete = TRUE
        /\ status_filter = "incomplete" => tasks[t].is_complete = FALSE}
filtered_tasks_incomplete_ignored(user_id, status_filter) ==
    {t \in DOMAIN tasks :
        /\ tasks[t].user_id = user_id
        /\ status_filter = "complete" => tasks[t].is_complete = TRUE}
filtered_tasks_unknown_empty(user_id, status_filter) ==
    {t \in DOMAIN tasks :
        /\ tasks[t].user_id = user_id
        /\ status_filter \in {"", "complete", "incomplete"}
        /\ status_filter = "complete" => tasks[t].is_complete = TRUE
        /\ status_filter = "incomplete" => tasks[t].is_complete = FALSE}
\* the filtered query of TaskService.get_user_tasks
filtered_tasks(user_id, status_filter) ==
    {t \in DOMAIN tasks :
        /\ tasks[t].user_id = user_id
        /\ status_filter = "complete" => tasks[t].is_complete = TRUE
        /\ status_filter = "incomplete" => tasks[t].is_complete = FALSE}

\* TaskService.get_user_tasks, the filtered rows coming in order o
get_user_tasks(user_id, status_filter, o) ==
    LET total == {t \in DOMAIN tasks : tasks[t].user_id = user_id}
        task_responses == [i \in DOMAIN o |-> TaskResponse(o[i], tasks[o[i]])]
    IN  [tasks |-> task_responses, total_count |-> Cardinality(total),
         filtered_count |-> Len(task_responses)]

----------------------------------------------------------------------------
(* User service *)

PASSWORD_MIN_LENGTH == 8

\* pwd_context.hash / pwd_context.verify (bcrypt): the hash is opaque and
\* verifies exactly the password it was made from
hash_password(password) == [scheme |-> "bcrypt", of |-> password]
verify_password_any(plain_password, hashed_password) == TRUE
verify_password(plain_password, hashed_password) ==
    hashed_password.of = plain_password

select_user_by_email_none(email) == {}
\* select(User).where(User.email == email)
select_user_by_email(email) ==
    {u \in DOMAIN users : users[u].email = email}

\* UserService.get_user_by_id
get_user_by_id(user_id) == {u \in DOMAIN users : u = user_id}

\* the UNIQUE constraint on users.email, checked when a new row commits
email_unique(email) == \A u \in DOMAIN users : users[u].email # email

RegistrationFailed ==
    HTTPException(HTTP_500_INTERNAL_SERVER_ERROR,
                  "Registration failed due to server error", "")
EmailTaken == HTTPException(HTTP_400_BAD_REQUEST, "Email already registered", "")
BadCredentials ==
    HTTPException(HTTP_401_UNAUTHORIZED, "Incorrect email or password", "Bearer")
Inactive == HTTPException(HTTP_403_FORBIDDEN, "Account is inactive", "")
UserNotFound == HTTPException(HTTP_404_NOT_FOUND, "User not found", "")

\* the id whose token UserService.register_user returns
register_token_subject_stale(new_id) == IF new_id > 1 THEN new_id - 1 ELSE new_id
register_token_subject(new_id) == new_id

----------------------------------------------------------------------------
(* Requests a client can send *)

Emails == <<"a@x.com", "b@x.com", "c@x.com", "d@x.com">>
GoodPassword == <<"p", "w", "1", "2", "3", "4", "5", "6", "7", "8">>
OtherPassword == <<"w", "r", "o", "n", "g", "p", "a", "s", "s">>
ShortPassword == <<"s", "h", "o", "r", "t">>

OTHER_SECRET == "some-other-secret"

\* the times the model follows the clock to
ClockValues ==
    {d * ExpireSeconds + s : d \in 0..MaxDays, s \in 0..MaxSeconds}

StdClaims(user_id, exp) ==
    [sub |-> StrVal(str(user_id)), exp |-> IntVal(exp), iat |-> IntVal(0)]

\* a token in circulation: who it was made for, by what, and the token
Held(user_id, by, token) == [user_id |-> user_id, by |-> by, token |-> token]

\* a token for user 1 signed without the secret, expiring at time 0
ForgedToken == jwt_encode(StdClaims(1, 0), OTHER_SECRET, ALGORITHM)

\* the headers of the task and account specifications
Headers == {NoHeader} \cup {Bearer(i.token) : i \in issued}

\* every shape of header
AllHeaders ==
    Headers \cup {EmptyBearer, Header("Basic", MalformedToken)}
    \cup {Header("bearer", i.token) : i \in issued}

\* what a client keeps of the tokens it is handed
Keep(user_id, token) ==
    IF Cardinality(issued) < MaxTokens
    THEN issued \cup {Held(user_id, "create_access_token", token)}
    ELSE issued

TaskIds == 1..MaxTasks

\* a title one character longer than the schemas allow
LongTitle == [i \in 1..(TITLE_MAX_LENGTH + 1) |-> "x"]

CreateBodies ==
    {TaskBody(Some(<<"a">>), None, 0),
     TaskBody(Some(LongTitle), None, 0),
     TaskBody(Some(<<" ", "b", " ">>), Some(<<"d", " ">>), 1),
     TaskBody(Some(<<" ", " ">>), None, 0)}

UpdateBodies ==
    {TaskBody(Some(<<"b", "\t">>), None, 0),
     TaskBody(Some(LongTitle), None, 0),
     TaskBody(None, Some(<<"d">>), 0),
     TaskBody(None, Some(<<" ">>), 0),
     TaskBody(Some(<<" ">>), None, 0)}

StatusFilters == {"", "complete", "incomplete", "done"}

----------------------------------------------------------------------------
(* Routes.  Each action is one request: the Auth Gate dependency, then the *)
(* validation of the request, then the service method and its commit.  A   *)
(* request the gate rejects never reaches validation or the route, so its  *)
(* record holds the header alone.                                          *)

\* the requests the gate rejects, each with the exception raised
GateFailures(HS) ==
    {f \in {<<h, get_current_user_id(h, na)>> :
               h \in HS, na \in NotAuthenticatedStatus} : ~f[2].ok}

\* the requests the gate lets through, each with Depends(get_current_user_id)
Authenticated(HS) ==
    {a \in {<<h, get_current_user_id(h, HTTP_401_UNAUTHORIZED)>> : h \in HS} :
        a[2].ok}

Rejected(op, HS) ==
    \E f \in GateFailures(HS) :
        /\ resp' = Raised(Request(op, f[1]), f[2])
        /\ UNCHANGED <<sessions, users, next_user_id, tasks, next_task_id, clock,
                       issued>>

\* the request of an authenticated caller a, as the route receives it
Handled(op, a) ==
    [Request(op, a[1]) EXCEPT !.authenticated = TRUE, !.caller = a[2].value]

\* POST /api/auth/logout
Logout(HS) ==
    \/ Rejected("logout", HS)
    \/ \E a \in Authenticated(HS) :
        /\ resp' = [Handled("logout", a)
                      EXCEPT !.status_code = HTTP_200_OK,
                             !.message = "Logged out successfully"]
        /\ UNCHANGED <<sessions, users, next_user_id, tasks, next_task_id, clock,
                       issued>>

\* GET /api/auth/me
Me(HS) ==
    \/ Rejected("me", HS)
    \/ \E a \in Authenticated(HS) :
        LET user_id == a[2].value
            req == Handled("me", a)
        IN  /\ resp' =
                 IF get_user_by_id(user_id) = {} THEN Raised(req, UserNotFound)
                 ELSE [req EXCEPT
                         !.status_code = HTTP_200_OK,
                         !.user = UserResponse(user_id, users[user_id])]
            /\ UNCHANGED <<sessions, users, next_user_id, tasks, next_task_id, clock,
                           issued>>

\* POST /api/auth/register
Register ==
    \E email \in {Emails[i] : i \in 1..MaxUsers},
       password \in {GoodPassword, ShortPassword} :
        LET req == [Request("register", NoHeader)
                      EXCEPT !.email = email, !.password = password]
            new_id == next_user_id
        IN  IF Len(password) < PASSWORD_MIN_LENGTH
            THEN /\ resp' = Raised(req, ValidationError)
                 /\ UNCHANGED <<sessions, users, next_user_id, tasks, next_task_id,
                                clock, issued>>
            ELSE IF select_user_by_email(email) # {}
            THEN /\ resp' = Raised(req, EmailTaken)
                 /\ UNCHANGED <<sessions, users, next_user_id, tasks, next_task_id,
                                clock, issued>>
            ELSE IF ~email_unique(email)
            THEN /\ resp' = Raised(req, RegistrationFailed)
                 /\ UNCHANGED <<sessions, users, next_user_id, tasks, next_task_id,
                                clock, issued>>
            ELSE \E now_iat \in {clock, clock + 1} \cap ClockValues :
                  LET access_token ==
                        create_access_token(register_token_subject(new_id),
                                            clock, now_iat)
                  IN
                 /\ next_user_id <= MaxUsers
                 /\ users' = (new_id :> User(email, hash_password(password),
                                             TRUE)) @@ users
                 /\ next_user_id' = next_user_id + 1
                 /\ clock' = now_iat
                 /\ issued' = Keep(register_token_subject(new_id),
                                   access_token)
                 /\ resp' = [req EXCEPT
                               !.status_code = HTTP_201_CREATED,
                               !.token_type = "bearer",
                               !.access_token = access_token,
                               !.user = UserResponse(new_id, users'[new_id])]
                 /\ UNCHANGED <<sessions, tasks, next_task_id>>

\* how many logins in a row this email has just had refused (the service
\* keeps no such count: it is read off the exchanges)
consecutive_failures(email) ==
    IF resp.op = "login" /\ resp.email = email
       /\ resp.status_code = HTTP_401_UNAUTHORIZED
    THEN IF resp.failed_before < MaxAttempts THEN resp.failed_before + 1
         ELSE MaxAttempts
    ELSE 0

\* POST /api/auth/login
Login ==
    \E email \in {Emails[i] : i \in 1..MaxUsers},
       password \in {GoodPassword, OtherPassword} :
        LET req == [Request("login", NoHeader)
                      EXCEPT !.email = email, !.password = password,
                             !.failed_before = consecutive_failures(email)]
            found == select_user_by_email(email)
            id == CHOOSE u \in found : TRUE
        IN  IF found = {}
               \/ ~verify_password(password, users[id].password_hash)
            THEN /\ resp' = Raised(req, BadCredentials)
                 /\ UNCHANGED <<sessions, users, next_user_id, tasks, next_task_id,
                                clock, issued>>
            ELSE IF ~users[id].is_active
            THEN /\ resp' = Raised(req, Inactive)
                 /\ UNCHANGED <<sessions, users, next_user_id, tasks, next_task_id,
                                clock, issued>>
            ELSE \E now_iat \in {clock, clock + 1} \cap ClockValues :
                  LET access_token == create_access_token(id, clock, now_iat)
                  IN
                 /\ clock' = now_iat
                 /\ issued' = Keep(id, access_token)
                 /\ resp' = [req EXCEPT
                               !.status_code = HTTP_200_OK,
                               !.token_type = "bearer",
                               !.access_token = access_token,
                               !.user = UserResponse(id, users[id])]
                 /\ UNCHANGED <<sessions, users, next_user_id, tasks, next_task_id>>

\* POST /api/tasks
CreateTask(HS) ==
    \/ Rejected("create", HS)
    \/ \E a \in Authenticated(HS), body \in CreateBodies :
        LET user_id == a[2].value
            req == [Handled("create", a) EXCEPT !.task_data = body]
            task_data == TaskCreate(body)
            r == create_task(user_id, task_data, body, clock)
        IN  IF ~task_data.ok
            THEN /\ resp' = Raised(req, ValidationError)
                 /\ UNCHANGED <<sessions, users, next_user_id, tasks, next_task_id,
                                clock, issued>>
            ELSE /\ next_task_id <= MaxTasks
                 /\ tasks' = r.tasks
                 /\ next_task_id' = next_task_id + 1
                 /\ resp' = [req EXCEPT !.status_code = HTTP_201_CREATED,
                                        !.task = r.task]
                 /\ UNCHANGED <<sessions, users, next_user_id, clock, issued>>

\* GET /api/tasks
GetTasks(HS, filters) ==
    \/ Rejected("list", HS)
    \/ \E a \in Authenticated(HS), status_filter \in filters :
        LET user_id == a[2].value
            req == [Handled("list", a)
                      EXCEPT !.status_filter = status_filter]
        IN  /\ \E o \in Orderings(filtered_tasks(user_id, status_filter)) :
                  LET r == get_user_tasks(user_id, status_filter, o)
                  IN  resp' = [req EXCEPT
                                        !.status_code = HTTP_200_OK,
                                        !.tasks = r.tasks,
                                        !.total_count = r.total_count,
                                        !.filtered_count = r.filtered_count]
            /\ UNCHANGED <<sessions, users, next_user_id, tasks, next_task_id, clock,
                           issued>>

\* the response of a route on /api/tasks/{task_id} and its commit
TaskRoute(req, r, status_code) ==
    /\ resp' = IF ~r.exc.ok THEN Raised(req, r.exc)
               ELSE [req EXCEPT !.status_code = status_code, !.task = r.task]
    /\ tasks' = r.tasks
    /\ UNCHANGED <<sessions, users, next_user_id, next_task_id, clock, issued>>

\* GET /api/tasks/{task_id}
GetTask(HS) ==
    \/ Rejected("get", HS)
    \/ \E a \in Authenticated(HS), task_id \in TaskIds :
        TaskRoute([Handled("get", a) EXCEPT !.task_id = task_id],
                  get_task_by_id(a[2].value, task_id), HTTP_200_OK)

\* PUT /api/tasks/{task_id}
UpdateTask(HS) ==
    \/ Rejected("update", HS)
    \/ \E a \in Authenticated(HS), task_id \in TaskIds,
          body \in UpdateBodies :
        LET req == [Handled("update", a)
                      EXCEPT !.task_id = task_id, !.task_data = body]
            task_data == TaskUpdate(body)
        IN  IF ~task_data.ok
            THEN /\ resp' = Raised(req, ValidationError)
                 /\ UNCHANGED <<sessions, users, next_user_id, tasks, next_task_id,
                                clock, issued>>
            ELSE TaskRoute(req, update_task(a[2].value, task_id, task_data),
                           HTTP_200_OK)

\* DELETE /api/tasks/{task_id}
DeleteTask(HS) ==
    \/ Rejected("delete", HS)
    \/ \E a \in Authenticated(HS), task_id \in TaskIds :
        TaskRoute([Handled("delete", a) EXCEPT !.task_id = task_id],
                  delete_task(a[2].value, task_id), HTTP_204_NO_CONTENT)

\* PATCH /api/tasks/{task_id}/toggle
ToggleTask(HS) ==
    \/ Rejected("toggle", HS)
    \/ \E a \in Authenticated(HS), task_id \in TaskIds :
        TaskRoute([Handled("toggle", a) EXCEPT !.task_id = task_id],
                  toggle_completion(a[2].value, task_id), HTTP_200_OK)

----------------------------------------------------------------------------
(* Requests during which the persistence engine fails: session.execute or *)
(* session.commit raises.  The transaction is lost, so no table changes.   *)

\* the request req, marked as one the engine failed in, answered with exc
EngineFailed(req, exc) == [Raised(req, exc) EXCEPT !.engine_failed = TRUE]

\* login_user's "except Exception"
LoginFailed ==
    HTTPException(HTTP_500_INTERNAL_SERVER_ERROR,
                  "Login failed due to server error", "")

\* an exception no handler catches: the server's 500 response
Unhandled ==
    HTTPException(HTTP_500_INTERNAL_SERVER_ERROR, "Internal Server Error", "")

\* UserService.get_user_by_id when the query raises: "except Exception"
\* logs the error and returns None
get_user_by_id_engine_failure(user_id) == [exc |-> Return(0), found |-> {}]

\* UserService.get_current_user around a get_user_by_id that answered r
get_current_user_engine_failure(user_id) ==
    LET r == get_user_by_id_engine_failure(user_id)
    IN  IF ~r.exc.ok
        THEN HTTPException(HTTP_500_INTERNAL_SERVER_ERROR,
                           "Failed to retrieve user information", "")
        ELSE IF r.found = {} THEN UserNotFound
        ELSE Return(0)

\* POST /api/auth/register, the engine failing
RegisterEngineFailure ==
    \E email \in {Emails[i] : i \in 1..MaxUsers} :
        /\ resp' = EngineFailed([Request("register", NoHeader)
                                   EXCEPT !.email = email,
                                          !.password = GoodPassword],
                                RegistrationFailed)
        /\ UNCHANGED <<sessions, users, next_user_id, tasks, next_task_id,
                       clock, issued>>

\* POST /api/auth/login, the engine failing
LoginEngineFailure ==
    \E email \in {Emails[i] : i \in 1..MaxUsers} :
        /\ resp' = EngineFailed([Request("login", NoHeader)
                                   EXCEPT !.email = email,
                                          !.password = GoodPassword],
                                LoginFailed)
        /\ UNCHANGED <<sessions, users, next_user_id, tasks, next_task_id,
                       clock, issued>>

\* GET /api/auth/me, the engine failing
MeEngineFailure(HS) ==
    \E a \in Authenticated(HS) :
        /\ resp' = EngineFailed(Handled("me", a),
                                get_current_user_engine_failure(a[2].value))
        /\ UNCHANGED <<sessions, users, next_user_id, tasks, next_task_id,
                       clock, issued>>

\* a route of /api/tasks, the engine failing: TaskService catches nothing
TaskEngineFailure(HS) ==
    \E a \in Authenticated(HS),
       op \in {"create", "list", "get", "update", "delete", "toggle"} :
        /\ resp' = EngineFailed(Handled(op, a), Unhandled)
        /\ UNCHANGED <<sessions, users, next_user_id, tasks, next_task_id,
                       clock, issued>>

----------------------------------------------------------------------------
(* The environment *)

\* the server clock advances by d seconds
Tick(d) ==
    /\ clock + d \in ClockValues
    /\ clock' = clock + d
    /\ resp' = NoResp
    /\ UNCHANGED <<sessions, users, next_user_id, tasks, next_task_id, issued>>

\* users.is_active is cleared in the store (no route of the API does it)
DeactivateUser ==
    \E u \in DOMAIN users :
        /\ users[u].is_active
        /\ users' = [users EXCEPT ![u].is_active = FALSE]
        /\ resp' = NoResp
        /\ UNCHANGED <<sessions, next_user_id, tasks, next_task_id, clock, issued>>

\* a users row is removed from the store (no route of the API does it)
DeleteUser ==
    \E u \in DOMAIN users :
        /\ users' = [v \in DOMAIN users \ {u} |-> users[v]]
        /\ resp' = NoResp
        /\ UNCHANGED <<sessions, next_user_id, tasks, next_task_id, clock, issued>>

\* create_access_token called for any subject, as create_test_token.py does
\* for user 1; the caller holds the one token
SubjectIds == (-1..MaxSubject) \cup {LargeSubject}

IssueToken ==
    \E user_id \in SubjectIds, now_iat \in {clock, clock + 1} \cap ClockValues :
        LET token == create_access_token(user_id, clock, now_iat)
        IN  /\ issued' = {Held(user_id, "create_access_token", token)}
            /\ clock' = now_iat
            /\ resp' = [Request("issue", NoHeader)
                          EXCEPT !.caller = user_id, !.access_token = token]
            /\ UNCHANGED <<sessions, users, next_user_id, tasks, next_task_id>>

\* claims a holder of the secret can sign besides those of the service
OddClaims ==
    {[sub |-> Absent, exp |-> IntVal(ExpireSeconds), iat |-> IntVal(0)],
     [sub |-> IntVal(5), exp |-> IntVal(ExpireSeconds), iat |-> IntVal(0)],
     [sub |-> StrVal(<<>>), exp |-> IntVal(ExpireSeconds), iat |-> IntVal(0)],
     [sub |-> StrVal(<<"a", "b", "c">>), exp |-> IntVal(ExpireSeconds),
      iat |-> IntVal(0)],
     [sub |-> StrVal(<<"1", ".", "5">>), exp |-> IntVal(ExpireSeconds),
      iat |-> IntVal(0)],
     [sub |-> StrVal(<<" ", "7", "\n">>), exp |-> IntVal(ExpireSeconds),
      iat |-> IntVal(0)],
     [sub |-> StrVal(<<"1", "_", "0">>), exp |-> IntVal(0), iat |-> Absent],
     [sub |-> StrVal(<<"3">>), exp |-> Absent, iat |-> Absent],
     [sub |-> StrVal(<<"3">>), exp |-> StrVal(<<"x">>), iat |-> Absent],
     [sub |-> Absent, exp |-> IntVal(0), iat |-> Absent]}

\* tokens made outside the service: signed with the secret, or without it
OutsideTokens ==
    {jwt_encode(c, BETTER_AUTH_SECRET, ALGORITHM) : c \in OddClaims}
    \cup {MalformedToken, ForgedToken,
          jwt_encode(StdClaims(1, ExpireSeconds), OTHER_SECRET, ALGORITHM),
          jwt_encode(StdClaims(1, ExpireSeconds), "", "none"),
          jwt_encode(StdClaims(1, ExpireSeconds), BETTER_AUTH_SECRET, "HS512")}

\* a client obtains one of them
ObtainToken ==
    \E token \in OutsideTokens :
        /\ issued' = {Held(0, "outside", token)}
        /\ resp' = NoResp
        /\ UNCHANGED <<sessions, users, next_user_id, tasks, next_task_id, clock>>

----------------------------------------------------------------------------
(* Requests running side by side.  Each has its own AsyncSession; a route  *)
(* awaits between its SELECT and its commit, and another request can run   *)
(* there.                                                                  *)

Sessions == 1..MaxSessions

\* a request: where it stands, what it loaded, how it ended, and whether
\* another request committed to the same row or email after it had read
NoSession ==
    [pc |-> "idle", op |-> "none", user_id |-> 0, task_id |-> 0,
     loaded |-> NoTask, email |-> "", status_code |-> 0, task |-> NoTask,
     concurrent |-> FALSE, rival_read |-> NoTask, rival_status |-> 0,
     task_data |-> TaskUpdate(NoBody), listed |-> <<>>, owned_at_read |-> 0,
     total_count |-> 0, filtered_count |-> 0]

\* the other requests learn nothing of a commit; the model notes on those
\* that have read row task_id and not yet committed that this one got in first
MarkToggleRivals(s, task_id, status_code) ==
    [r \in Sessions |->
        IF r # s /\ sessions[r].pc = "loaded" /\ sessions[r].task_id = task_id
           /\ ~sessions[r].concurrent
        THEN [sessions[r] EXCEPT !.concurrent = TRUE,
                                 !.rival_read = sessions[s].loaded,
                                 !.rival_status = status_code]
        ELSE sessions[r]]

MarkRegisterRivals(s, email, status_code) ==
    [r \in Sessions |->
        IF r # s /\ sessions[r].pc = "checked" /\ sessions[r].email = email
           /\ ~sessions[r].concurrent
        THEN [sessions[r] EXCEPT !.concurrent = TRUE,
                                 !.rival_status = status_code]
        ELSE sessions[r]]

\* toggle_completion up to its await of the SELECT
BeginToggle ==
    \E s \in Sessions, user_id \in DOMAIN users, task_id \in TaskIds :
        LET req == [NoSession EXCEPT !.op = "toggle", !.user_id = user_id,
                                     !.task_id = task_id]
        IN  /\ sessions[s].pc \in {"idle", "done"}
            /\ sessions' =
                 [sessions EXCEPT ![s] =
                    IF select_task(user_id, task_id) = {}
                    THEN [req EXCEPT !.pc = "done",
                                     !.status_code = TaskNotFound.status_code]
                    ELSE [req EXCEPT
                            !.pc = "loaded",
                            !.loaded = TaskResponse(task_id, tasks[task_id])]]
            /\ UNCHANGED <<users, next_user_id, tasks, next_task_id, clock,
                           issued, resp>>

toggle_write_in_place(loaded, stored) == ~stored.is_complete
\* task.is_complete = not task.is_complete, on the object the request loaded
toggle_write(loaded, stored) == ~loaded.is_complete

\* the row an ORM object holds
Row(loaded) ==
    Task(loaded.user_id, loaded.title, loaded.description,
         loaded.is_complete, loaded.created_at)

\* the row the request's object stands for when it flushes: the columns it
\* did not change are whatever the table holds by then
Base(s) ==
    IF sessions[s].task_id \in DOMAIN tasks THEN tasks[sessions[s].task_id]
    ELSE Row(sessions[s].loaded)

update_row_upsert(task_id, task) ==
    [exc |-> Return(0), tasks |-> (task_id :> task) @@ tasks]
\* session.commit() and session.refresh(task) for a changed object: the
\* UPDATE .. WHERE id = task_id; when the row is gone it matches nothing
\* (StaleDataError, or the refresh finds no row) and nothing catches that
update_row(task_id, task) ==
    IF task_id \in DOMAIN tasks
    THEN [exc |-> Return(0), tasks |-> [tasks EXCEPT ![task_id] = task]]
    ELSE [exc |-> Unhandled, tasks |-> tasks]

\* what a request that loaded a row ends with after its commit r, and what
\* the requests beside it are left holding
Committed(s, task, r) ==
    IF r.exc.ok
    THEN [MarkToggleRivals(s, sessions[s].task_id, HTTP_200_OK) EXCEPT ![s] =
            [sessions[s] EXCEPT
                !.pc = "done", !.status_code = HTTP_200_OK,
                !.task = TaskResponse(sessions[s].task_id, task)]]
    ELSE [sessions EXCEPT ![s] =
            [@ EXCEPT !.pc = "done", !.status_code = r.exc.status_code]]

\* toggle_completion from the assignment on: the UPDATE of the row with the
\* value computed from the loaded object, the commit, the refresh
CommitToggle ==
    \E s \in Sessions :
        LET task_id == sessions[s].task_id
            task == [Base(s) EXCEPT
                       !.is_complete = toggle_write(sessions[s].loaded,
                                                    Base(s))]
            r == update_row(task_id, task)
        IN  /\ sessions[s].pc = "loaded"
            /\ sessions[s].op = "toggle"
            /\ tasks' = r.tasks
            /\ sessions' = Committed(s, task, r)
            /\ UNCHANGED <<users, next_user_id, next_task_id, clock, issued,
                           resp>>

\* the one body the overlapping updates send
OverlapUpdate == TaskUpdate(TaskBody(Some(<<"b">>), None, 0))

\* update_task up to its await of the SELECT
BeginUpdate ==
    \E s \in Sessions, user_id \in DOMAIN users, task_id \in TaskIds :
        LET req == [NoSession EXCEPT !.op = "update", !.user_id = user_id,
                                     !.task_id = task_id,
                                     !.task_data = OverlapUpdate]
        IN  /\ sessions[s].pc \in {"idle", "done"}
            /\ sessions' =
                 [sessions EXCEPT ![s] =
                    IF select_task(user_id, task_id) = {}
                    THEN [req EXCEPT !.pc = "done",
                                     !.status_code = TaskNotFound.status_code]
                    ELSE [req EXCEPT
                            !.pc = "loaded",
                            !.loaded = TaskResponse(task_id, tasks[task_id])]]
            /\ UNCHANGED <<users, next_user_id, tasks, next_task_id, clock,
                           issued, resp>>

\* update_task from its assignments on: the columns whose value differs
\* from the loaded one are written, then the commit and the refresh
CommitUpdate ==
    \E s \in Sessions :
        LET task_id == sessions[s].task_id
            task_data == sessions[s].task_data
            loaded == sessions[s].loaded
            task == [Base(s) EXCEPT
                       !.title = IF task_data.title.some
                                    /\ task_data.title.s # loaded.title
                                 THEN task_data.title.s ELSE @,
                       !.description =
                           IF task_data.description.some
                              /\ task_data.description # loaded.description
                           THEN task_data.description ELSE @]
            r == update_row(task_id, task)
        IN  /\ sessions[s].pc = "loaded"
            /\ sessions[s].op = "update"
            /\ tasks' = r.tasks
            /\ sessions' = Committed(s, task, r)
            /\ UNCHANGED <<users, next_user_id, next_task_id, clock, issued,
                           resp>>

\* get_user_tasks up to its await of the filtered query
BeginList ==
    \E s \in Sessions, user_id \in DOMAIN users :
        \E o \in Orderings(filtered_tasks(user_id, "")) :
            /\ sessions[s].pc \in {"idle", "done"}
            /\ sessions' =
                 [sessions EXCEPT ![s] =
                    [NoSession EXCEPT
                        !.pc = "listed", !.op = "list", !.user_id = user_id,
                        !.listed = get_user_tasks(user_id, "", o).tasks,
                        !.owned_at_read =
                            get_user_tasks(user_id, "", o).total_count]]
            /\ UNCHANGED <<users, next_user_id, tasks, next_task_id, clock,
                           issued, resp>>

\* get_user_tasks from its total-count query on
FinishList ==
    \E s \in Sessions :
        /\ sessions[s].pc = "listed"
        /\ sessions' =
             [sessions EXCEPT ![s] =
                [@ EXCEPT
                    !.pc = "done", !.status_code = HTTP_200_OK,
                    !.total_count =
                        get_user_tasks(sessions[s].user_id, "",
                                       <<>>).total_count,
                    !.filtered_count = Len(sessions[s].listed)]]
        /\ UNCHANGED <<users, next_user_id, tasks, next_task_id, clock,
                       issued, resp>>

\* register_user up to its await of the existence check
BeginRegister ==
    \E s \in Sessions, email \in {Emails[i] : i \in 1..MaxUsers} :
        LET req == [NoSession EXCEPT !.op = "register", !.email = email]
        IN  /\ sessions[s].pc \in {"idle", "done"}
            /\ sessions' =
                 [sessions EXCEPT ![s] =
                    IF select_user_by_email(email) # {}
                    THEN [req EXCEPT !.pc = "done",
                                     !.status_code = EmailTaken.status_code]
                    ELSE [req EXCEPT !.pc = "checked"]]
            /\ UNCHANGED <<users, next_user_id, tasks, next_task_id, clock,
                           issued, resp>>

\* register_user from session.add on: the INSERT and commit, which the
\* UNIQUE constraint refuses when the email has been stored meanwhile; the
\* IntegrityError is caught by "except Exception"
CommitRegister ==
    \E s \in Sessions :
        LET email == sessions[s].email
            new_id == next_user_id
        IN  /\ sessions[s].pc = "checked"
            /\ IF ~email_unique(email)
               THEN /\ sessions' =
                        [sessions EXCEPT ![s] =
                           [@ EXCEPT !.pc = "done",
                                     !.status_code =
                                        RegistrationFailed.status_code]]
                    /\ UNCHANGED <<users, next_user_id, issued>>
               ELSE /\ next_user_id <= MaxUsers
                    /\ users' = (new_id :> User(email,
                                                hash_password(GoodPassword),
                                                TRUE)) @@ users
                    /\ next_user_id' = next_user_id + 1
                    /\ issued' = Keep(new_id,
                                      create_access_token(new_id, clock, clock))
                    /\ sessions' =
                        [MarkRegisterRivals(s, email, HTTP_201_CREATED)
                           EXCEPT ![s] =
                             [sessions[s] EXCEPT
                                 !.pc = "done",
                                 !.status_code = HTTP_201_CREATED,
                                 !.user_id = new_id]]
            /\ UNCHANGED <<tasks, next_task_id, clock, resp>>

----------------------------------------------------------------------------
(* Specifications *)

EmptyTable == [t \in {} |-> NoTask]

\* the service after startup on an empty database
Init ==
    /\ users = [u \in {} |-> User("", hash_password(<<>>), FALSE)]
    /\ next_user_id = 1
    /\ tasks = EmptyTable
    /\ next_task_id = 1
    /\ clock = 0
    /\ issued = {}
    /\ resp = NoResp
    /\ sessions = [s \in Sessions |-> NoSession]

\* users 1..MaxUsers have registered at time 0 and hold their tokens, and a
\* forged token is around
InitRegistered ==
    /\ users = [u \in 1..MaxUsers |->
                  User(Emails[u], hash_password(GoodPassword), TRUE)]
    /\ next_user_id = MaxUsers + 1
    /\ tasks = EmptyTable
    /\ next_task_id = 1
    /\ clock = 0
    /\ issued = {Held(u, "create_access_token", create_access_token(u, 0, 0)) :
                   u \in 1..MaxUsers}
                \cup {Held(0, "outside", ForgedToken)}
    /\ resp = NoResp
    /\ sessions = [s \in Sessions |-> NoSession]

\* the task store used by registered users
Next ==
    \/ CreateTask(Headers)
    \/ GetTasks(Headers, StatusFilters)
    \/ GetTask(Headers)
    \/ UpdateTask(Headers)
    \/ DeleteTask(Headers)
    \/ ToggleTask(Headers)
    \/ Me(Headers)
    \/ Logout(Headers)
    \/ Tick(ExpireSeconds + 1)

Spec == InitRegistered /\ [][Next]_vars

\* accounts and tokens
NextAuth ==
    \/ Register
    \/ Login
    \/ Me(Headers)
    \/ Logout(Headers)
    \/ GetTasks(Headers, {""})
    \/ Tick(ExpireSeconds)
    \/ DeactivateUser
    \/ DeleteUser

SpecAuth == Init /\ [][NextAuth]_vars

\* the Token Service and the Auth Gate on any token
NextToken ==
    \/ IssueToken
    \/ ObtainToken
    \/ Logout(AllHeaders)
    \/ Tick(1)
    \/ Tick(ExpireSeconds)

SpecToken == Init /\ [][NextToken]_vars

\* one user has registered and created a task
InitRace ==
    /\ users = (1 :> User(Emails[1], hash_password(GoodPassword), TRUE))
    /\ next_user_id = 2
    /\ tasks = (1 :> Task(1, <<"a">>, None, FALSE, 0))
    /\ next_task_id = 2
    /\ clock = 0
    /\ issued = {Held(1, "create_access_token", create_access_token(1, 0, 0))}
    /\ resp = NoResp
    /\ sessions = [s \in Sessions |-> NoSession]

\* toggles and registrations that overlap
NextRace ==
    \/ BeginToggle
    \/ CommitToggle
    \/ BeginRegister
    \/ CommitRegister

SpecRace == InitRace /\ [][NextRace]_vars

\* the task store with an engine that can fail under any request
NextFault ==
    \/ CreateTask(Headers)
    \/ ToggleTask(Headers)
    \/ RegisterEngineFailure
    \/ LoginEngineFailure
    \/ MeEngineFailure(Headers)
    \/ TaskEngineFailure(Headers)

SpecFault == InitRegistered /\ [][NextFault]_vars

\* a task changed by requests that overlap its deletion and reads of it
NextOverlap ==
    \/ BeginToggle
    \/ CommitToggle
    \/ BeginUpdate
    \/ CommitUpdate
    \/ DeleteTask(Headers)
    \/ GetTask(Headers)
    \/ GetTasks(Headers, {""})

SpecOverlap == InitRace /\ [][NextOverlap]_vars

\* lists read while tasks are created and deleted
NextList ==
    \/ BeginList
    \/ FinishList
    \/ CreateTask(Headers)
    \/ DeleteTask(Headers)

SpecList == InitRace /\ [][NextList]_vars

----------------------------------------------------------------------------
(* Properties *)

ProtectedOps ==
    {"me", "logout", "create", "list", "get", "update", "delete", "toggle"}
ByIdOps == {"get", "update", "delete", "toggle"}

\* the header carries a bearer-scheme credential
BearerPresented(header) ==
    header.authorization /\ header.has_credentials
    /\ header.scheme \in {"Bearer", "bearer"}

\* the token's expiry is earlier than now
Expired(token, now) ==
    /\ ~token.malformed
    /\ token.claims.exp.kind = "int"
    /\ token.claims.exp.n < now

\* the tokens create_access_token made that have not expired
LiveTokens ==
    {i \in issued : i.by = "create_access_token"
                    /\ ~Expired(i.token, clock)}

C3_CreateOwnerIsCaller ==
    (resp.op = "create" /\ resp.status_code = HTTP_201_CREATED)
    => /\ \E i \in issued :
            /\ resp.header = Bearer(i.token)
            /\ resp.task.user_id = i.user_id
       /\ resp.task.is_complete = FALSE
       /\ resp.task.id \in DOMAIN tasks
       /\ tasks[resp.task.id].user_id = resp.task.user_id
       /\ tasks[resp.task.id].is_complete = FALSE

C3_Witness ==
    /\ resp.op = "create"
    /\ resp.status_code = HTTP_201_CREATED
    /\ resp.task_data.user_id \notin {0, resp.task.user_id}

\* C4: a token made by create_access_token for x verifies to x at any time
\* up to its expiry, and the gate hands x to the route.
C4_RoundTrip ==
    \A i \in LiveTokens :
        /\ verify_token(i.token) = Return(i.user_id)
        /\ (resp.op = "logout" /\ BearerPresented(resp.header)
            /\ resp.header.token = i.token)
           => (resp.authenticated /\ resp.caller = i.user_id)

C4_Witness ==
    /\ resp.op = "logout"
    /\ resp.status_code = HTTP_200_OK
    /\ resp.caller >= 10
    /\ \E i \in issued :
        /\ i.by = "create_access_token"
        /\ resp.header.token = i.token
        /\ i.token.claims.exp.n = clock

\* C5: a request to a protected operation bearing a token whose expiry is
\* earlier than the server clock is answered 401 with the Bearer challenge,
\* with a valid signature or not, and no table changes.
C5_ExpiredRejected ==
    [][(/\ resp'.op \in ProtectedOps
        /\ BearerPresented(resp'.header)
        /\ Expired(resp'.header.token, clock'))
       => (/\ resp'.status_code = HTTP_401_UNAUTHORIZED
           /\ resp'.www_authenticate = "Bearer"
           /\ ~resp'.authenticated
           /\ resp'.task = NoTask /\ resp'.tasks = <<>> /\ resp'.user = NoUser
           /\ UNCHANGED <<users, next_user_id, tasks, next_task_id,
                          issued>>)]_vars

C5_Witness ==
    /\ resp.op = "toggle"
    /\ resp.status_code = HTTP_401_UNAUTHORIZED
    /\ Expired(resp.header.token, clock)
    /\ resp.header.token.key = BETTER_AUTH_SECRET
    /\ tasks # EmptyTable

\* the failures of verification the claim lists
ListedFailure(token, now) ==
    \/ token.malformed
    \/ token.key # BETTER_AUTH_SECRET
    \/ token.alg # ALGORITHM
    \/ Expired(token, now)
    \/ token.claims.sub.kind = "absent"
    \/ token.claims.sub.kind = "str" /\ ~int(token.claims.sub.s).ok

\* C6: every failure of verification (malformed token, bad signature,
\* expired, subject absent or not an integer) is a 401 with the Bearer
\* challenge and no identity, and verification fails in no other way.
C6_FailuresAreUnauthorized ==
    /\ \A i \in issued :
         LET r == verify_token(i.token)
         IN  /\ ListedFailure(i.token, clock) => ~r.ok
             /\ ~r.ok => (/\ r.status_code = HTTP_401_UNAUTHORIZED
                          /\ r.www_authenticate = "Bearer")
    /\ (resp.op = "logout" /\ BearerPresented(resp.header)
        /\ ListedFailure(resp.header.token, clock))
       => (/\ resp.status_code = HTTP_401_UNAUTHORIZED
           /\ resp.www_authenticate = "Bearer"
           /\ ~resp.authenticated)
    /\ (resp.op = "logout" /\ BearerPresented(resp.header))
       => resp.status_code \in {HTTP_200_OK, HTTP_401_UNAUTHORIZED}

C6_Witness ==
    /\ resp.op = "logout"
    /\ BearerPresented(resp.header)
    /\ resp.header.token.key = BETTER_AUTH_SECRET
    /\ resp.header.token.claims.sub.kind = "str"
    /\ ~int(resp.header.token.claims.sub.s).ok
    /\ resp.status_code = HTTP_401_UNAUTHORIZED

\* C7: a request to a protected operation without a bearer credential is
\* answered 401 and no table changes.
C7_MissingTokenUnauthorized ==
    [][(resp'.op \in ProtectedOps /\ ~BearerPresented(resp'.header))
       => (/\ resp'.status_code = HTTP_401_UNAUTHORIZED
           /\ ~resp'.authenticated
           /\ UNCHANGED <<users, next_user_id, tasks, next_task_id,
                          issued>>)]_vars

\* C8: whatever happened since it was issued (logouts, logins, the account
\* deactivated or its row removed), an unexpired token still verifies to its
\* subject and the routes still run for that subject.
C8_StatelessTokens ==
    \A i \in LiveTokens :
        /\ verify_token(i.token) = Return(i.user_id)
        /\ (resp.op \in ProtectedOps /\ resp.header = Bearer(i.token))
           => (/\ resp.authenticated
               /\ resp.caller = i.user_id
               /\ resp.op \in {"list", "logout"}
                  => resp.status_code = HTTP_200_OK)

C8_Witness ==
    /\ resp.op = "list"
    /\ resp.status_code = HTTP_200_OK
    /\ resp.caller \notin DOMAIN users
    /\ \E i \in LiveTokens : resp.header = Bearer(i.token)

UniqueEmails ==
    \A u, v \in DOMAIN users : users[u].email = users[v].email => u = v

\* C9: no two stored users ever share an email, and a well-formed
\* registration of a stored email is answered 400, with no token, and
\* changes neither the users table nor the tokens in circulation.
C9_EmailUnique ==
    [][/\ UniqueEmails'
       /\ (/\ resp'.op = "register"
           /\ Len(resp'.password) >= PASSWORD_MIN_LENGTH
           /\ \E u \in DOMAIN users : users[u].email = resp'.email)
          => (/\ resp'.status_code = HTTP_400_BAD_REQUEST
              /\ resp'.token_type = ""
              /\ resp'.access_token = MalformedToken
              /\ users' = users
              /\ next_user_id' = next_user_id
              /\ issued' = issued)]_vars

C9_Witness ==
    /\ resp.op = "register"
    /\ resp.status_code = HTTP_400_BAD_REQUEST
    /\ \E u \in DOMAIN users : users[u].email = resp.email
    /\ Cardinality(DOMAIN users) = MaxUsers

\* C10: the token a successful registration returns verifies to the id of
\* the user that registration stored.
C10_RegisterTokenSubject ==
    (resp.op = "register" /\ resp.status_code = HTTP_201_CREATED)
    => /\ verify_token(resp.access_token) = Return(resp.user.id)
       /\ resp.user.id \in DOMAIN users
       /\ users[resp.user.id].email = resp.email
       /\ resp.user.email = resp.email
       /\ \A u \in DOMAIN users : users[u].email = resp.email => u = resp.user.id

C10_Witness ==
    /\ resp.op = "register"
    /\ resp.status_code = HTTP_201_CREATED
    /\ resp.user.id > 1
    /\ verify_token(resp.access_token) = Return(resp.user.id)

\* C11: a login with a wrong password for a stored email is answered 401 and
\* changes nothing, however many refusals came before it; and a login with
\* the right password for an active account then still succeeds with a token
\* for that account.
C11_NoLockout ==
    [][\A u \in DOMAIN users :
        (resp'.op = "login" /\ users[u].email = resp'.email)
        => /\ users[u].password_hash.of # resp'.password
              => (/\ resp'.status_code = HTTP_401_UNAUTHORIZED
                  /\ resp'.access_token = MalformedToken
                  /\ UNCHANGED <<users, next_user_id, tasks, next_task_id,
                                 clock, issued>>)
           /\ (users[u].password_hash.of = resp'.password
               /\ users[u].is_active)
              => (/\ resp'.status_code = HTTP_200_OK
                  /\ resp'.user.id = u
                  /\ verify_token_at(resp'.access_token, clock') = Return(u)
                  /\ users' = users)]_vars

C11_Witness ==
    /\ resp.op = "login"
    /\ resp.status_code = HTTP_200_OK
    /\ resp.failed_before >= 3
    /\ resp.password = GoodPassword

\* the ids of the tasks a list response carries
ListedIds(task_responses) ==
    {task_responses[i].id : i \in DOMAIN task_responses}

\* the stored tasks of owner user_id that the completion filter admits
OwnedMatching(user_id, status_filter) ==
    {t \in DOMAIN tasks :
        /\ tasks[t].user_id = user_id
        /\ status_filter = "complete" => tasks[t].is_complete
        /\ status_filter = "incomplete" => ~tasks[t].is_complete}

\* every answer list can give user_id under status_filter in this state
ListAnswers(user_id, status_filter) ==
    {get_user_tasks(user_id, status_filter, o) :
        o \in Orderings(filtered_tasks(user_id, status_filter))}

\* C12: the list returned to A holds each task A owns that the filter admits,
\* once and as stored, and nothing else; the counts are those of A's tasks.
C12_ListIsOwnersTasks ==
    (resp.op = "list" /\ resp.status_code = HTTP_200_OK)
    => /\ ListedIds(resp.tasks) = OwnedMatching(resp.caller, resp.status_filter)
       /\ Len(resp.tasks) = Cardinality(ListedIds(resp.tasks))
       /\ \A i \in DOMAIN resp.tasks :
            resp.tasks[i] = TaskResponse(resp.tasks[i].id,
                                         tasks[resp.tasks[i].id])
       /\ resp.filtered_count = Len(resp.tasks)
       /\ resp.total_count = Cardinality(OwnedMatching(resp.caller, ""))

C12_Witness ==
    /\ resp.op = "list"
    /\ resp.status_code = HTTP_200_OK
    /\ resp.status_filter = "incomplete"
    /\ Len(resp.tasks) = 1
    /\ \E t \in DOMAIN tasks :
        tasks[t].user_id # resp.caller /\ ~tasks[t].is_complete

\* C13: in one state and for one caller, what list returns under
\* 'complete' and under 'incomplete' are disjoint parts of what it returns
\* unfiltered and together make it up; filtered_count never exceeds
\* total_count.
C13_FilterPartition ==
    \A u \in DOMAIN users :
        LET ids(f) == UNION {ListedIds(r.tasks) : r \in ListAnswers(u, f)}
        IN  /\ ids("complete") \subseteq ids("")
            /\ ids("incomplete") \subseteq ids("")
            /\ ids("complete") \cap ids("incomplete") = {}
            /\ ids("complete") \cup ids("incomplete") = ids("")
            /\ \A f \in StatusFilters : \A r \in ListAnswers(u, f) :
                  /\ r.filtered_count <= r.total_count
                  /\ r.filtered_count = Cardinality(ListedIds(r.tasks))

C13_Witness ==
    /\ resp.op = "list"
    /\ resp.status_code = HTTP_200_OK
    /\ resp.status_filter = "complete"
    /\ resp.filtered_count = 1
    /\ resp.total_count = 2

\* C14: a list request whose filter is neither 'complete' nor 'incomplete'
\* succeeds and is answered as the request with no filter is in that state.
C14_UnknownFilterIsNoFilter ==
    /\ \A u \in DOMAIN users :
         \A f \in StatusFilters \ {"complete", "incomplete"} :
            ListAnswers(u, f) = ListAnswers(u, "")
    /\ (resp.op = "list" /\ resp.authenticated
        /\ resp.status_filter \notin {"complete", "incomplete"})
       => /\ resp.status_code = HTTP_200_OK
          /\ ListedIds(resp.tasks) = OwnedMatching(resp.caller, "")
          /\ resp.filtered_count = resp.total_count
          /\ resp.total_count = Cardinality(OwnedMatching(resp.caller, ""))

C14_Witness ==
    /\ resp.op = "list"
    /\ resp.status_code = HTTP_200_OK
    /\ resp.status_filter = "done"
    /\ resp.filtered_count = 2
    /\ \E t \in ListedIds(resp.tasks) : tasks[t].is_complete

\* C15: a successful update leaves the task's owner, completion flag and
\* creation time, each field the request did not supply, and every other
\* task as they were, and returns the task as it now is stored.
C15_UpdateFrame ==
    [][(resp'.op = "update" /\ resp'.status_code = HTTP_200_OK)
       => LET id == resp'.task_id
              body == resp'.task_data
          IN  /\ id \in DOMAIN tasks
              /\ DOMAIN tasks' = DOMAIN tasks
              /\ \A t \in DOMAIN tasks \ {id} : tasks'[t] = tasks[t]
              /\ tasks'[id].user_id = tasks[id].user_id
              /\ tasks'[id].is_complete = tasks[id].is_complete
              /\ tasks'[id].created_at = tasks[id].created_at
              /\ ~body.title.some => tasks'[id].title = tasks[id].title
              /\ ~body.description.some
                 => tasks'[id].description = tasks[id].description
              /\ resp'.task = TaskResponse(id, tasks'[id])
              /\ UNCHANGED <<users, next_user_id, next_task_id, issued>>]_vars

C15_Witness ==
    /\ resp.op = "update"
    /\ resp.status_code = HTTP_200_OK
    /\ ~resp.task_data.description.some
    /\ tasks[resp.task_id].description.some
    /\ tasks[resp.task_id].is_complete
    /\ Cardinality(DOMAIN tasks) = 2

\* the text is one or more whitespace characters and nothing else
IsBlank(text) ==
    Len(text) >= 1 /\ \A i \in DOMAIN text : text[i] \in Whitespace

\* C16: a create request whose title is only whitespace is answered 400 and
\* stores no task.
C16_BlankTitleBadRequest ==
    [][(/\ resp'.op = "create"
        /\ resp'.authenticated
        /\ resp'.task_data.title.some
        /\ IsBlank(resp'.task_data.title.s))
       => (/\ resp'.status_code = HTTP_400_BAD_REQUEST
           /\ tasks' = tasks
           /\ next_task_id' = next_task_id)]_vars

\* the title the schemas have to refuse: only whitespace, or too long
BadTitle(v) == v.some /\ (IsBlank(v.s) \/ Len(v.s) > TITLE_MAX_LENGTH)

\* C17: every stored title is non-empty, at most 200 characters and has no
\* whitespace at either end, and no stored description is the empty string;
\* create and update treat a supplied title alike, and both refuse one that
\* is only whitespace or too long.
C17_StoredTitlesValid ==
    /\ \A t \in DOMAIN tasks :
         LET title == tasks[t].title
         IN  /\ Len(title) >= 1
             /\ Len(title) <= TITLE_MAX_LENGTH
             /\ title[1] \notin Whitespace
             /\ title[Len(title)] \notin Whitespace
             /\ ~(tasks[t].description.some /\ tasks[t].description.s = <<>>)
    /\ \A body \in CreateBodies \cup UpdateBodies :
         /\ body.title.some
            => TaskCreate_title(body.title) = TaskUpdate_title(body.title)
         /\ BadTitle(body.title)
            => (~TaskCreate(body).ok /\ ~TaskUpdate(body).ok)
    /\ (resp.op \in {"create", "update"} /\ resp.authenticated
        /\ BadTitle(resp.task_data.title))
       => (/\ resp.status_code = ValidationError.status_code
           /\ resp.task = NoTask)

C17_Witness ==
    /\ resp.op = "update"
    /\ resp.authenticated
    /\ Len(resp.task_data.title.s) > TITLE_MAX_LENGTH
    /\ resp.status_code = ValidationError.status_code
    /\ resp.task_id \in DOMAIN tasks
    /\ tasks[resp.task_id].user_id = resp.caller

\* C18: a successful toggle stores and returns the negation of the stored
\* flag, and a second one straight after the first, on the same task,
\* brings the flag back to what it was before the first.
C18_ToggleTwice ==
    [][(resp'.op = "toggle" /\ resp'.status_code = HTTP_200_OK)
       => LET id == resp'.task_id
          IN  /\ tasks'[id].is_complete = ~tasks[id].is_complete
              /\ resp'.task.is_complete = ~tasks[id].is_complete
              /\ (resp.op = "toggle" /\ resp.status_code = HTTP_200_OK
                  /\ resp.task_id = id)
                 => tasks'[id].is_complete = ~resp.task.is_complete]_vars

C18_Witness ==
    /\ resp.op = "toggle"
    /\ resp.status_code = HTTP_200_OK
    /\ resp.task.is_complete = FALSE
    /\ tasks[resp.task_id].is_complete = FALSE

\* C19: when a toggle commits after another toggle of the same task that
\* read the same flag before either committed, both are answered 200 and the
\* flag stored is the negation of the one they both read: one flip is lost.
C19_ConcurrentTogglesLoseOne ==
    [][\A s \in Sessions :
        (/\ sessions[s].pc = "loaded"
         /\ sessions[s].op = "toggle"
         /\ sessions'[s].pc = "done"
         /\ sessions[s].concurrent
         /\ sessions[s].rival_read.is_complete
               = sessions[s].loaded.is_complete)
        => (/\ sessions'[s].status_code = HTTP_200_OK
            /\ sessions[s].rival_status = HTTP_200_OK
            /\ tasks'[sessions[s].task_id].is_complete
                  = ~sessions[s].loaded.is_complete
            /\ sessions'[s].task.is_complete
                  = ~sessions[s].loaded.is_complete)]_vars

C19_Witness ==
    \E s \in Sessions, r \in Sessions :
        /\ s # r
        /\ sessions[s].pc = "done" /\ sessions[r].pc = "done"
        /\ sessions[s].op = "toggle" /\ sessions[r].op = "toggle"
        /\ sessions[s].task_id = sessions[r].task_id
        /\ sessions[s].concurrent /\ ~sessions[r].concurrent
        /\ sessions[s].rival_read = sessions[r].loaded
        /\ sessions[s].loaded.is_complete = sessions[r].loaded.is_complete
        /\ sessions[s].status_code = HTTP_200_OK
        /\ sessions[r].status_code = HTTP_200_OK
        /\ tasks[sessions[s].task_id].is_complete
              = ~sessions[s].loaded.is_complete

\* C20: of two registrations of one email that both pass the existence check
\* before either commits, the one that commits second is answered 400 and
\* stores no user.
C20_RegisterRaceBadRequest ==
    [][\A s \in Sessions :
        (/\ sessions[s].pc = "checked"
         /\ sessions'[s].pc = "done"
         /\ sessions[s].concurrent)
        => (/\ sessions'[s].status_code = HTTP_400_BAD_REQUEST
            /\ users' = users)]_vars

\* C24: the expiry claim of every token create_access_token makes is its
\* issued-at claim plus 24 hours, in whole seconds.
C24_ExpiryIsIssuedAtPlusDay ==
    \A i \in issued :
        i.by = "create_access_token"
        => i.token.claims.exp.n
              = i.token.claims.iat.n
                + ACCESS_TOKEN_EXPIRE_HOURS * SecondsPerHour

\* C22: a successful update whose body gives description as the empty or a
\* whitespace-only string leaves the task stored, and returned, without a
\* description.
C22_BlankDescriptionClears ==
    [][(/\ resp'.op = "update"
        /\ resp'.status_code = HTTP_200_OK
        /\ resp'.task_data.description.some
        /\ (resp'.task_data.description.s = <<>>
            \/ IsBlank(resp'.task_data.description.s)))
       => (/\ tasks'[resp'.task_id].description = None
           /\ resp'.task.description = None)]_vars

\* C23: a request during which the persistence engine fails is answered 500
\* and changes no table.
C23_EngineFailureIsServerError ==
    [][resp'.engine_failed
       => (/\ resp'.status_code = HTTP_500_INTERNAL_SERVER_ERROR
           /\ UNCHANGED <<users, next_user_id, tasks, next_task_id>>)]_vars

\* C21: a list response never counts more filtered tasks than tasks in all,
\* and its total_count is the number of tasks the caller had in the state
\* the returned tasks were read from.
C21_ListCountsConsistent ==
    \A s \in Sessions :
        (sessions[s].pc = "done" /\ sessions[s].op = "list")
        => /\ sessions[s].filtered_count <= sessions[s].total_count
           /\ sessions[s].total_count = sessions[s].owned_at_read

\* C25: a task id that has been deleted never holds a row again; an update
\* or toggle of it ends without success and without a task, also when it had
\* read the row before the delete; get and delete answer 404 for it and no
\* list read after the delete carries it.
C25_NoResurrection ==
    [][/\ \A t \in 1..(next_task_id - 1) :
            t \notin DOMAIN tasks => t \notin DOMAIN tasks'
       /\ \A s \in Sessions :
            (/\ sessions'[s] # sessions[s]
             /\ sessions'[s].pc = "done"
             /\ sessions'[s].op \in {"toggle", "update"}
             /\ sessions'[s].task_id \notin DOMAIN tasks)
            => (/\ sessions'[s].status_code
                      \in {HTTP_404_NOT_FOUND, HTTP_500_INTERNAL_SERVER_ERROR}
                /\ sessions'[s].task = NoTask)
       /\ (resp' # resp /\ resp'.op \in {"get", "delete"}
           /\ resp'.authenticated /\ resp'.task_id \notin DOMAIN tasks)
          => (resp'.status_code = HTTP_404_NOT_FOUND /\ resp'.task = NoTask)
       /\ (resp' # resp /\ resp'.op = "list"
           /\ resp'.status_code = HTTP_200_OK)
          => ListedIds(resp'.tasks) \subseteq DOMAIN tasks]_vars

C25_Witness ==
    \E s \in Sessions, r \in Sessions :
        /\ sessions[s].pc = "done" /\ sessions[r].pc = "done"
        /\ sessions[s].op = "toggle" /\ sessions[r].op = "update"
        /\ sessions[s].task_id = sessions[r].task_id
        /\ sessions[s].loaded.id = sessions[s].task_id
        /\ sessions[r].loaded.id = sessions[r].task_id
        /\ sessions[s].task_id \notin DOMAIN tasks
        /\ sessions[s].status_code = HTTP_500_INTERNAL_SERVER_ERROR
        /\ sessions[r].status_code = HTTP_500_INTERNAL_SERVER_ERROR

====
